---- MODULE Spec2Model ----
(***************************************************************************)
(* State-machine model of the WebVR display session of                     *)
(* components/script/dom/vrdisplay.rs: the VRDisplay DOM object (owned by  *)
(* the script thread), the WebVR_RAF threads spawned by init_present, the  *)
(* NotifyDisplayRAF runnable, and the two collaborators the session talks  *)
(* to: the WebVR thread (protocol calls with a reply) and the render       *)
(* thread (VRCompositorCommand).                                           *)
(***************************************************************************)
EXTENDS Integers, Sequences, FiniteSets

(***************************************************************************)
(* Bounds of the model.                                                    *)
(***************************************************************************)
\* RequestAnimationFrame is not taken once next_raf_id exceeds MaxRafId.
MaxRafId == 2
\* At most MaxLoops WebVR_RAF threads are spawned in one run.
MaxLoops == 2
\* Performance.Now() yields a value of 1..MaxNow.
MaxNow == 2
\* The WebVR thread answers GetFrameData with a snapshot of 1..MaxFrame.
MaxFrame == 2
\* SpecWrap takes at most MaxWrapCalls calls of RequestAnimationFrame.
MaxWrapCalls == 2

\* The limit of next_raf_id under Spec, which spends its states on the
\* inputs of the session instead.
MaxSessionRafId == 1
\* The number of WebVR_RAF threads under Spec.
MaxSessionLoops == 1

(***************************************************************************)
(* Input domains.                                                          *)
(***************************************************************************)
\* Option<Vec<Finite<f32>>> of VRLayer.leftBounds / rightBounds.
NoBounds == [some |-> FALSE, v |-> <<>>]

SomeBounds(v) == [some |-> TRUE, v |-> v]

FourBounds == SomeBounds(<<5, 6, 7, 8>>)

\* None, and arrays of 0, 1, 2, 3, 4 and 5 values.
BoundsInputs ==
    {NoBounds, FourBounds} \cup
    {SomeBounds(v) : v \in {<<>>, <<5>>, <<5, 6>>, <<5, 6, 7>>,
                            <<5, 6, 7, 8, 9>>}}

\* VRLayer.source resolved by get_or_init_webgl_context: 0 is "no WebGL
\* context", 1 and 2 are two rendering contexts.
VRLayer(source, left, right) ==
    [source |-> source, leftBounds |-> left, rightBounds |-> right]

VRLayerInputs ==
    {VRLayer(1, l, NoBounds) : l \in BoundsInputs} \cup
    {VRLayer(1, NoBounds, r) : r \in BoundsInputs} \cup
    {VRLayer(2, NoBounds, NoBounds), VRLayer(0, NoBounds, NoBounds),
     VRLayer(0, SomeBounds(<<5, 6, 7>>), NoBounds)}

\* The layer sequences handed to RequestPresent: no layer, one, or two.
LayersInputs ==
    {<<>>} \cup {<<l>> : l \in VRLayerInputs} \cup
    {<<VRLayer(1, NoBounds, NoBounds), VRLayer(1, NoBounds, NoBounds)>>,
     <<VRLayer(1, FourBounds, NoBounds), VRLayer(2, NoBounds, NoBounds)>>}

\* One valid layer, and one whose leftBounds has three values.
PlainLayers ==
    {<<VRLayer(1, NoBounds, NoBounds)>>,
     <<VRLayer(1, SomeBounds(<<5, 6, 7>>), NoBounds)>>}

\* webvr::VRDeviceType values the WebVR thread answers RequestPresent with.
DeviceTypes == {1}

\* webvr::VRDisplayData, reduced to the fields the session reads.
DisplayData == [connected : BOOLEAN, can_present : BOOLEAN]

ReadyDisplay == [connected |-> TRUE, can_present |-> TRUE]

\* What a call finds of the WebVR thread: "Some" is a sender whose message
\* is taken, "None" is webvr_thread() = None, "Gone" is a sender whose
\* receiver was dropped, so that send(..) is Err.
WebVRThreads == {"Some", "None", "Gone"}

\* What receiver.recv() yields: the reply Ok(v) or Err(e) of the WebVR
\* thread, or, with "Closed", the Err of a reply sender that was dropped
\* without a reply.
RequestPresentReplies ==
    {[kind |-> "Ok", v |-> d] : d \in DeviceTypes} \cup
    {[kind |-> "Err", v |-> 0], [kind |-> "Closed", v |-> 0]}

ExitPresentReplies ==
    {[kind |-> k, v |-> 0] : k \in {"Ok", "Err", "Closed"}}

GetFrameDataFailures ==
    {[kind |-> "Err", v |-> 0], [kind |-> "Closed", v |-> 0]}

GetFrameDataReplies ==
    {[kind |-> "Ok", v |-> f] : f \in 1..MaxFrame} \cup GetFrameDataFailures

VRDisplayEvent(kind, d, p) ==
    [kind |-> kind, display |-> d, presenting |-> p]

\* Disconnect(id) carries no display data.
VRDisplayEvents ==
    {VRDisplayEvent(k, d, FALSE) :
        k \in {"Connect", "Activate", "Deactivate", "Blur", "Focus", "Change"},
        d \in DisplayData} \cup
    {VRDisplayEvent("PresentChange", d, p) : d \in DisplayData, p \in BOOLEAN} \cup
    {VRDisplayEvent("Disconnect", ReadyDisplay, FALSE)}

\* The events of a display that stays connected and able to present.
ReadyDisplayEvents ==
    {VRDisplayEvent("PresentChange", ReadyDisplay, p) : p \in BOOLEAN} \cup
    {VRDisplayEvent("Change", ReadyDisplay, FALSE)}

(***************************************************************************)
(* State.                                                                  *)
(***************************************************************************)
VARIABLES
    display,            \* VRDisplay.display
    presenting,         \* VRDisplay.presenting
    frame_data,         \* VRDisplay.frame_data (0 is Default::default())
    layer,              \* VRDisplay.layer
    layer_ctx,          \* VRDisplay.layer_ctx (0 is None)
    compositor_id,      \* VRDisplay.compositor_id (0 is None)
    next_raf_id,        \* VRDisplay.next_raf_id
    raf_callback_list,  \* VRDisplay.raf_callback_list
    pc,                 \* script thread: "idle", "drain", "callback", "recv",
                        \* "crashed"
    rpc,                \* the protocol call whose reply the script thread
                        \* waits for in receiver.recv()
    callbacks,          \* notify_raf's local `callbacks`
    timing,             \* notify_raf's local `timing`
    running,            \* handle of the frame callback being executed, or 0
    handler,            \* WebVR_RAF thread whose NotifyDisplayRAF is handled
    script_queue,       \* NotifyDisplayRAF runnables posted to the script thread
    loops,              \* the WebVR_RAF threads spawned so far
    created,            \* render thread: compositor ids with a live compositor
    cancel_called,      \* handles still registered that were passed to
                        \* CancelAnimationFrame
    hist,               \* what happened so far, as far as a property needs it
    out                 \* what the last step did (calls, sends, results)

vars ==
    <<display, presenting, frame_data, layer, layer_ctx, compositor_id,
      next_raf_id, raf_callback_list, pc, rpc, callbacks, timing, running,
      handler, script_queue, loops, created, cancel_called, hist, out>>

session ==
    <<display, presenting, frame_data, layer, layer_ctx, compositor_id,
      next_raf_id, raf_callback_list>>

(***************************************************************************)
(* Layer validation (pure functions).                                      *)
(***************************************************************************)
\* webvr::VRLayer::default(): the left and the right half of the surface,
\* in units of 0.5.
DefaultLeftBounds == <<0, 0, 1, 2>>

DefaultRightBounds == <<1, 0, 1, 2>>

DefaultLayer ==
    [left_bounds |-> DefaultLeftBounds, right_bounds |-> DefaultRightBounds]

BoundsLengthMsg ==
    "The number of values in the leftBounds/rightBounds arrays must be 0 or 4"

\* parse_bounds(src, dst): res is "ok" (Ok(())), "err" (Err(msg)) or "panic"
\* (values[i] indexed past the end of the vector); dst is the array after
\* the call.
parse_bounds(src, dst) ==
    IF ~src.some THEN [res |-> "ok", dst |-> dst]
    ELSE IF Len(src.v) = 0 THEN [res |-> "ok", dst |-> dst]
    ELSE IF Len(src.v) > 4 THEN [res |-> "err", dst |-> dst]
    ELSE IF Len(src.v) < 4
        THEN [res |-> "panic",
              dst |-> [i \in 1..4 |-> IF i <= Len(src.v) THEN src.v[i] ELSE dst[i]]]
    ELSE [res |-> "ok", dst |-> [i \in 1..4 |-> src.v[i]]]

\* validate_layer(cx, layer): Ok((WebVRLayer(data), ctx)), Err(msg), or the
\* panic of parse_bounds.
validate_layer(l) ==
    IF l.source = 0
        THEN [res |-> "err", msg |-> "VRLayer source must be a WebGL Context",
              layer |-> DefaultLayer, ctx |-> 0]
    ELSE LET left == parse_bounds(l.leftBounds, DefaultLeftBounds)
             right == parse_bounds(l.rightBounds, DefaultRightBounds)
         IN  IF left.res # "ok"
                 THEN [res |-> left.res, msg |-> BoundsLengthMsg,
                       layer |-> DefaultLayer, ctx |-> 0]
             ELSE IF right.res # "ok"
                 THEN [res |-> right.res, msg |-> BoundsLengthMsg,
                       layer |-> DefaultLayer, ctx |-> 0]
             ELSE [res |-> "ok", msg |-> "",
                   layer |-> [left_bounds |-> left.dst, right_bounds |-> right.dst],
                   ctx |-> l.source]

(***************************************************************************)
(* What one step did: the promise it settled, the protocol call it made to *)
(* the WebVR thread, the commands it sent to the render thread, the        *)
(* WebVR_RAF thread it spawned, the DOM event it fired, the frame callback *)
(* it invoked, the value it returned, the device event it handled.         *)
(***************************************************************************)
Did(op) ==
    [op |-> op, promise |-> "none", msg |-> "", rpc |-> "none", cmds |-> <<>>,
     spawned |-> 0, fired |-> "none", invoked |-> 0, ts |-> 0, ret |-> 0,
     reply |-> "none", delegated |-> FALSE, thread |-> 0, panic |-> FALSE,
     event |-> "none"]

Rejected(op, msg) == [Did(op) EXCEPT !.promise = "rejected", !.msg = msg]

\* VRCompositorCommand
Command(cmd, id, left, right) ==
    [cmd |-> cmd, id |-> id, left |-> left, right |-> right]

\* The render thread takes the commands in the order they were sent:
\* Create makes the compositor of `id`, Release drops it.
RenderThread(live, cmd) ==
    IF cmd.cmd = "Create" THEN live \cup {cmd.id}
    ELSE IF cmd.cmd = "Release" THEN live \ {cmd.id}
    ELSE live

\* The history of a new session.
\*   returned   the largest handle RequestAnimationFrame has returned from
\*              next_raf_id, 0 when it has returned none
\*   invoked    the handles whose callback notify_raf has called
\*   swapped    next_raf_id as it was when the batch being drained was
\*              swapped out, 0 between drains
\*   cancelled  the handles passed to CancelAnimationFrame while they were
\*              waiting in the batch being drained
\*   period     the WebVR_RAF thread spawned at the start of the current
\*              presenting period, 0 when there is none
\*   released   the WebVR_RAF thread of the period that the last successful
\*              ExitPresent ended with a Release, 0 when there is none
\*   syncs      the SyncPoses commands that thread has sent since, up to 2;
\*              both are forgotten when the thread ends
\*   batch      the batch being drained as notify_raf swapped it out, <<>>
\*              between drains
\*   calls      the callbacks notify_raf has called in this drain, in the
\*              order of the calls, each with the timestamp it was passed
\*   stale      the handles that were in the registry when presenting
\*              became false and have not been taken by a drain since
NoHistory ==
    [returned |-> 0, invoked |-> {}, swapped |-> 0, cancelled |-> {},
     period |-> 0, released |-> 0, syncs |-> 0, batch |-> <<>>,
     calls |-> <<>>, stale |-> {}]

\* The script thread waits for no reply.  `from` is where the call was made
\* from, `layer` and `ctx` are RequestPresent's locals layer_bounds and
\* layer_ctx.
NoCall == [op |-> "none", from |-> "idle", layer |-> DefaultLayer, ctx |-> 0]

\* The script thread can take an API call: between tasks, or from inside a
\* frame callback that notify_raf is executing.
CanCall == pc \in {"idle", "callback"}

(***************************************************************************)
(* The session after VRDisplay::new_inherited, with no task running.       *)
(***************************************************************************)
InitSession ==
    /\ presenting = FALSE
    /\ frame_data = 0
    /\ layer = DefaultLayer
    /\ layer_ctx = 0
    /\ compositor_id = 0
    /\ next_raf_id = 1
    /\ raf_callback_list = <<>>
    /\ pc = "idle"
    /\ rpc = NoCall
    /\ callbacks = <<>>
    /\ timing = 0
    /\ running = 0
    /\ handler = 0
    /\ script_queue = <<>>
    /\ loops = <<>>
    /\ created = {}
    /\ cancel_called = {}
    /\ hist = NoHistory
    /\ out = Did("new")

(***************************************************************************)
(* Script thread: helpers.                                                 *)
(***************************************************************************)
\* A panic unwinds the script thread: the task being run and its locals
\* are dropped and no further task or call is taken.
Crash ==
    /\ pc' = "crashed"
    /\ rpc' = NoCall
    /\ callbacks' = <<>>
    /\ timing' = 0
    /\ running' = 0
    /\ handler' = 0

Continue == UNCHANGED <<pc, rpc, callbacks, timing, running, handler>>

\* `wevbr_sender.send(msg)` went through and the script thread waits in
\* `receiver.recv()`.
Wait(op, v) ==
    /\ pc' = "recv"
    /\ rpc' = [op |-> op, from |-> pc, layer |-> v.layer, ctx |-> v.ctx]
    /\ UNCHANGED <<callbacks, timing, running, handler>>

\* `receiver.recv()` has returned and the call goes on where it was made.
Return ==
    /\ pc' = IF pc = "recv" THEN rpc.from ELSE pc
    /\ rpc' = NoCall
    /\ UNCHANGED <<callbacks, timing, running, handler>>

Panicked(op) == [Did(op) EXCEPT !.panic = TRUE]

\* The handles of the entries of a callback list.
Handles(list) == {list[i].id : i \in 1..Len(list)}

\* The history once WebVR_RAF thread l has ended.
Ended(l) ==
    IF l = hist.released THEN [hist EXCEPT !.released = 0, !.syncs = 0]
    ELSE hist

\* A new WebVR_RAF thread, about to send Create.
NewLoop(cid) == [cid |-> cid, pc |-> "create", reply |-> "none", sig |-> FALSE]

\* init_present(compositor_id); layer_ctx was set by the caller, so its
\* unwrap() succeeds.
init_present(cid) ==
    /\ presenting' = TRUE
    /\ compositor_id' = cid
    /\ loops' = Append(loops, NewLoop(cid))
    /\ hist' = [hist EXCEPT !.period = Len(loops) + 1]

\* stop_present(), called by `op`, whose step is `done` when stop_present
\* returns: unwrap() of layer_ctx or of compositor_id panics on None.
stop_present(op, done) ==
    /\ presenting' = FALSE
    /\ IF layer_ctx = 0 \/ compositor_id = 0
       THEN /\ Crash
            /\ created' = created
            /\ hist' = [hist EXCEPT
                           !.period = 0,
                           !.stale = @ \cup Handles(raf_callback_list)]
            /\ out' = [Panicked(op) EXCEPT !.rpc = done.rpc]
       ELSE /\ Return
            /\ hist' = [hist EXCEPT
                           !.period = 0, !.released = hist.period, !.syncs = 0,
                           !.stale = @ \cup Handles(raf_callback_list)]
            /\ created' =
                   RenderThread(created, Command("Release", compositor_id, <<>>, <<>>))
            /\ out' = [done EXCEPT
                          !.cmds = <<Command("Release", compositor_id, <<>>, <<>>)>>]

\* A slip: the capability check reads the connection flag.
BugCanPresentReadsConnected == display.connected

\* `!self.display.borrow().0.capabilities.can_present` is false.
CanPresent == display.can_present

\* A slip: only the empty sequence is refused.
BugLayerCountAtLeastOne(layers) == Len(layers) >= 1

\* `layers.len() != 1` is false.
LayerCountOk(layers) == Len(layers) = 1

(***************************************************************************)
(* Script thread: VRDisplayMethods.                                        *)
(***************************************************************************)
\* What RequestPresent did when `receiver.recv()` yielded `reply`; unwrap()
\* panics on a closed channel.
Called(reply) ==
    IF reply.kind = "Ok"
    THEN [Did("RequestPresent") EXCEPT
             !.promise = "resolved", !.rpc = "RequestPresent", !.reply = "Ok",
             !.spawned = Len(loops) + 1]
    ELSE IF reply.kind = "Err"
    THEN [Rejected("RequestPresent", "Err") EXCEPT
             !.rpc = "RequestPresent", !.reply = "Err"]
    ELSE [Panicked("RequestPresent") EXCEPT
             !.rpc = "RequestPresent", !.reply = "Closed"]

\* What a call of `op` did up to `wevbr_sender.send(msg)`, when it found
\* the WebVR thread to be `w`; unwrap() panics on a failed send.
Sent(op, w) ==
    IF w = "None"
    THEN [Rejected(op, "Not available") EXCEPT !.reply = "NotAvailable"]
    ELSE IF w = "Gone"
    THEN [Panicked(op) EXCEPT !.rpc = op]
    ELSE [Did("send") EXCEPT !.rpc = op]

\* RequestPresent, not presenting: the message is sent to the WebVR thread,
\* found to be one of `threads`, and the script thread waits for the reply.
RequestPresentSend(v, threads) ==
    \E w \in threads :
        /\ out' = Sent("RequestPresent", w)
        /\ UNCHANGED <<layer, layer_ctx, presenting, compositor_id, loops, hist>>
        /\ IF w = "None" THEN Continue
           ELSE IF w = "Gone" THEN Crash
           ELSE Wait("RequestPresent", v)

\* A slip: the layer is stored whatever the reply is.
BugStoreBeforeReply(v, replies) ==
    \E reply \in replies :
        /\ layer' = v.layer
        /\ layer_ctx' = v.ctx
        /\ out' = Called(reply)
        /\ IF reply.kind = "Ok"
           THEN init_present(reply.v) /\ Return
           ELSE /\ UNCHANGED <<presenting, compositor_id, loops, hist>>
                /\ IF reply.kind = "Err" THEN Return ELSE Crash

\* RequestPresent, not presenting: `match receiver.recv().unwrap()` with
\* one of `replies`; v holds the locals layer_bounds and layer_ctx.
RequestPresentCall(v, replies) ==
    \E reply \in replies :
        /\ out' = Called(reply)
        /\ IF reply.kind = "Ok"
           THEN /\ layer' = v.layer
                /\ layer_ctx' = v.ctx
                /\ init_present(reply.v)
                /\ Return
           ELSE /\ UNCHANGED <<layer, layer_ctx, presenting, compositor_id, loops,
                               hist>>
                /\ IF reply.kind = "Err" THEN Return ELSE Crash

\* A slip: a repeated call goes to the WebVR thread again.
BugRepeatCalls(v, threads) == RequestPresentSend(v, threads)

\* RequestPresent, already presenting: the layer is updated.
RequestPresentRepeat(v, threads) ==
    /\ layer' = v.layer
    /\ layer_ctx' = v.ctx
    /\ out' = [Did("RequestPresent") EXCEPT !.promise = "resolved"]
    /\ Continue
    /\ UNCHANGED <<presenting, compositor_id, loops, hist>>

\* RequestPresent(layers) up to its return or to `receiver.recv()`, the
\* WebVR thread being found as one of `threads` when a message is sent.
RequestPresent(layers, threads) ==
    /\ CanCall
    /\ UNCHANGED <<display, frame_data, next_raf_id, raf_callback_list,
                   script_queue, created, cancel_called>>
    /\ IF ~CanPresent
       THEN /\ out' = Rejected("RequestPresent", "VRDisplay canPresent is false")
            /\ Continue
            /\ UNCHANGED <<layer, layer_ctx, presenting, compositor_id, loops,
                           hist>>
       ELSE IF ~LayerCountOk(layers)
       THEN /\ out' = Rejected("RequestPresent", "The number of layers must be 1")
            /\ Continue
            /\ UNCHANGED <<layer, layer_ctx, presenting, compositor_id, loops,
                           hist>>
       ELSE LET v == validate_layer(layers[1])
            IN  IF v.res = "panic"
                THEN /\ out' = Panicked("RequestPresent")
                     /\ Crash
                     /\ UNCHANGED <<layer, layer_ctx, presenting,
                                    compositor_id, loops, hist>>
                ELSE IF v.res = "err"
                THEN /\ out' = Rejected("RequestPresent", v.msg)
                     /\ Continue
                     /\ UNCHANGED <<layer, layer_ctx, presenting,
                                    compositor_id, loops, hist>>
                ELSE IF presenting
                THEN RequestPresentRepeat(v, threads)
                ELSE RequestPresentSend(v, threads)

\* RequestPresent from `receiver.recv()` on, the reply being one of
\* `replies`.
RequestPresentReply(replies) ==
    /\ pc = "recv"
    /\ rpc.op = "RequestPresent"
    /\ UNCHANGED <<display, frame_data, next_raf_id, raf_callback_list,
                   script_queue, created, cancel_called>>
    /\ RequestPresentCall(rpc, replies)

\* A slip: the presenting flag is not looked at.
BugExitUnchecked(w) ==
    /\ CanCall
    /\ UNCHANGED <<session, script_queue, loops, created, cancel_called, hist>>
    /\ out' = Sent("ExitPresent", w)
    /\ IF w = "None" THEN Continue
       ELSE IF w = "Gone" THEN Crash
       ELSE Wait("ExitPresent", NoCall)

\* ExitPresent() up to its return or to `receiver.recv()`, the WebVR thread
\* being found as `w` when the message is sent.
ExitPresent(w) ==
    /\ CanCall
    /\ UNCHANGED <<session, script_queue, loops, created, cancel_called, hist>>
    /\ IF ~presenting
       THEN /\ out' = Rejected("ExitPresent", "VRDisplay is not presenting")
            /\ Continue
       ELSE /\ out' = Sent("ExitPresent", w)
            /\ IF w = "None" THEN Continue
               ELSE IF w = "Gone" THEN Crash
               ELSE Wait("ExitPresent", NoCall)

\* What ExitPresent did when `receiver.recv()` yielded Ok(()).
Exited ==
    [Did("ExitPresent") EXCEPT
        !.promise = "resolved", !.rpc = "ExitPresent", !.reply = "Ok"]

\* What ExitPresent did when `receiver.recv()` yielded no Ok(()).
NotExited(reply) ==
    IF reply.kind = "Err"
    THEN [Rejected("ExitPresent", "Err") EXCEPT
             !.rpc = "ExitPresent", !.reply = "Err"]
    ELSE [Panicked("ExitPresent") EXCEPT
             !.rpc = "ExitPresent", !.reply = "Closed"]

\* A slip: the reply of the WebVR thread is not looked at.
BugExitIgnoresReply(reply) ==
    /\ pc = "recv"
    /\ rpc.op = "ExitPresent"
    /\ UNCHANGED <<display, frame_data, layer, layer_ctx, compositor_id,
                   next_raf_id, raf_callback_list, script_queue, loops,
                   cancel_called>>
    /\ IF reply.kind # "Closed"
       THEN stop_present("ExitPresent", Exited)
       ELSE /\ out' = NotExited(reply)
            /\ Crash
            /\ UNCHANGED <<presenting, created, hist>>

\* ExitPresent from `receiver.recv()` on, the reply being `reply`.
ExitPresentReply(reply) ==
    /\ pc = "recv"
    /\ rpc.op = "ExitPresent"
    /\ UNCHANGED <<display, frame_data, layer, layer_ctx, compositor_id,
                   next_raf_id, raf_callback_list, script_queue, loops,
                   cancel_called>>
    /\ IF reply.kind = "Ok"
       THEN stop_present("ExitPresent", Exited)
       ELSE /\ out' = NotExited(reply)
            /\ IF reply.kind = "Err" THEN Return ELSE Crash
            /\ UNCHANGED <<presenting, created, hist>>

\* SubmitFrame(): unwrap() of layer_ctx or of compositor_id panics on None.
SubmitFrame ==
    /\ CanCall
    /\ UNCHANGED <<session, script_queue, loops, created, cancel_called, hist>>
    /\ IF ~presenting
       THEN /\ out' = Did("SubmitFrame")
            /\ Continue
       ELSE IF layer_ctx = 0 \/ compositor_id = 0
       THEN /\ out' = Panicked("SubmitFrame")
            /\ Crash
       ELSE /\ out' = [Did("SubmitFrame") EXCEPT
                          !.cmds = <<Command("SubmitFrame", compositor_id,
                                             layer.left_bounds,
                                             layer.right_bounds)>>]
            /\ Continue

\* A slip: a failed fetch resets the cache.
BugCacheReset(reply) == IF reply.kind = "Ok" THEN reply.v ELSE 0

\* The cache after the reply: Ok(data) overwrites it, Err(e) is logged.
Cached(reply) == IF reply.kind = "Ok" THEN reply.v ELSE frame_data

\* GetFrameData up to `receiver.recv()`; with no WebVR thread the call goes
\* straight to frameData.update(), whose argument is `ret`.
GetFrameData(w) ==
    /\ CanCall
    /\ UNCHANGED <<session, script_queue, loops, created, cancel_called, hist>>
    /\ IF w = "None"
       THEN /\ out' = [Did("GetFrameData") EXCEPT
                          !.reply = "NotAvailable", !.ret = frame_data]
            /\ Continue
       ELSE /\ out' = Sent("GetFrameData", w)
            /\ IF w = "Gone" THEN Crash ELSE Wait("GetFrameData", NoCall)

\* GetFrameData from `receiver.recv()` on: `ret` is what frameData.update()
\* hands to the caller.
GetFrameDataReply(reply) ==
    /\ pc = "recv"
    /\ rpc.op = "GetFrameData"
    /\ UNCHANGED <<display, presenting, layer, layer_ctx, compositor_id,
                   next_raf_id, raf_callback_list, script_queue, loops,
                   created, cancel_called, hist>>
    /\ IF reply.kind = "Closed"
       THEN /\ out' = [Panicked("GetFrameData") EXCEPT
                          !.rpc = "GetFrameData", !.reply = "Closed"]
            /\ Crash
            /\ UNCHANGED frame_data
       ELSE /\ frame_data' = Cached(reply)
            /\ out' = [Did("GetFrameData") EXCEPT
                          !.reply = reply.kind, !.rpc = "GetFrameData",
                          !.ret = frame_data']
            /\ Return

\* ResetPose(): the message is sent and no reply is waited for; unwrap()
\* panics on a failed send.
ResetPose(w) ==
    /\ CanCall
    /\ UNCHANGED <<session, script_queue, loops, created, cancel_called, hist>>
    /\ out' = IF w = "None" THEN Did("ResetPose")
              ELSE IF w = "Gone"
              THEN [Panicked("ResetPose") EXCEPT !.rpc = "ResetPose"]
              ELSE [Did("ResetPose") EXCEPT !.rpc = "ResetPose"]
    /\ IF w = "Gone" THEN Crash ELSE Continue

\* update_display(display)
update_display(d) == display' = d

\* next_raf_id and the handles are u32.  The integers of the model checker
\* are 32 bits wide and signed, so a u32 value v is held as v when
\* v < 2^31 and as v - 2^32 when not: 2^32 - 1, the largest u32, is held
\* as -1, and 2^32 - 2 as -2.
U32Max == -1

\* The largest and the smallest held value.
HeldMax == 2147483647

HeldMin == (-2147483647) - 1

\* a + 1 of u32 values in a build without overflow checks.
WrappingSucc(a) ==
    IF a = U32Max THEN 0 ELSE IF a = HeldMax THEN HeldMin ELSE a + 1

\* a < b of u32 values.
U32Less(a, b) == IF (a < 0) = (b < 0) THEN a < b ELSE b < 0

\* `self.next_raf_id.set(raf_id + 1)`, when the addition does not panic.
NextRafId == WrappingSucc(next_raf_id)

\* While not presenting the call goes to the window's own scheduler,
\* which is not part of the session.  `raf_id + 1` overflows at the largest
\* u32: a build with overflow checks panics there, before anything is
\* stored, and a build without them wraps to 0.
RequestAnimationFrame ==
    /\ CanCall
    /\ UNCHANGED <<display, presenting, frame_data, layer, layer_ctx,
                   compositor_id, script_queue, loops, created, cancel_called>>
    /\ IF presenting
       THEN \/ /\ next_raf_id' = NextRafId
               /\ raf_callback_list' =
                      Append(raf_callback_list,
                             [id |-> next_raf_id, cb |-> TRUE])
               /\ hist' = [hist EXCEPT !.returned = next_raf_id]
               /\ out' = [Did("RequestAnimationFrame") EXCEPT
                             !.ret = next_raf_id]
               /\ Continue
            \/ /\ next_raf_id = U32Max
               /\ out' = Panicked("RequestAnimationFrame")
               /\ Crash
               /\ UNCHANGED <<next_raf_id, raf_callback_list, hist>>
       ELSE /\ out' = [Did("RequestAnimationFrame") EXCEPT !.delegated = TRUE]
            /\ Continue
            /\ UNCHANGED <<next_raf_id, raf_callback_list, hist>>

\* update_display(display) called on its own by the owner of the displays,
\* between tasks or from a frame callback.
UpdateDisplay(d) ==
    /\ CanCall
    /\ update_display(d)
    /\ out' = Did("update_display")
    /\ Continue
    /\ UNCHANGED <<presenting, frame_data, layer, layer_ctx, compositor_id,
                   next_raf_id, raf_callback_list, script_queue, loops,
                   created, cancel_called, hist>>

\* `list.iter_mut().find(|pair| pair.0 == handle)` and `pair.1 = None`.
ClearPayload(list, handle) ==
    IF handle \in Handles(list)
    THEN LET k == CHOOSE i \in 1..Len(list) :
                      /\ list[i].id = handle
                      /\ \A j \in 1..(i - 1) : list[j].id # handle
         IN  [list EXCEPT ![k].cb = FALSE]
    ELSE list

\* While not presenting the call goes to the window's own scheduler and
\* the registry of the session is not touched.
CancelAnimationFrame(handle) ==
    /\ CanCall
    /\ Continue
    /\ UNCHANGED <<display, presenting, frame_data, layer, layer_ctx,
                   compositor_id, next_raf_id, script_queue, loops, created>>
    /\ cancel_called' =
           cancel_called \cup ({handle} \cap Handles(raf_callback_list))
    /\ hist' = [hist EXCEPT
                   !.cancelled = @ \cup ({handle} \cap Handles(callbacks))]
    /\ IF presenting
       THEN /\ raf_callback_list' = ClearPayload(raf_callback_list, handle)
            /\ out' = Did("CancelAnimationFrame")
       ELSE /\ out' = [Did("CancelAnimationFrame") EXCEPT !.delegated = TRUE]
            /\ UNCHANGED raf_callback_list

(***************************************************************************)
(* Script thread: device events (handle_webvr_event), taken between tasks. *)
(***************************************************************************)
\* A slip: Change is passed to notify_event like the events of the WebVR
\* specification.
BugNotifiesChange(event) == event.kind \notin {"Connect", "Disconnect"}

\* The events handle_webvr_event passes to notify_event.
Notifies(event) ==
    event.kind \in {"Activate", "Deactivate", "Blur", "Focus", "PresentChange"}

\* Disconnect clears `connected` in place; every other event replaces the
\* descriptor; PresentChange also sets presenting.
handle_webvr_event(event) ==
    /\ pc = "idle"
    /\ IF event.kind = "Disconnect"
       THEN display' = [display EXCEPT !.connected = FALSE]
       ELSE update_display(event.display)
    /\ presenting' =
           IF event.kind = "PresentChange" THEN event.presenting ELSE presenting
    /\ hist' = [hist EXCEPT
                   !.period = IF presenting /\ presenting' THEN @ ELSE 0,
                   !.stale = IF presenting /\ ~presenting'
                             THEN @ \cup Handles(raf_callback_list)
                             ELSE @]
    /\ out' = [Did("handle_webvr_event") EXCEPT
                  !.event = event.kind,
                  !.fired = IF Notifies(event) THEN event.kind ELSE "none"]
    /\ Continue
    /\ UNCHANGED <<frame_data, layer, layer_ctx, compositor_id, next_raf_id,
                   raf_callback_list, script_queue, loops, created,
                   cancel_called>>

(***************************************************************************)
(* Script thread: the NotifyDisplayRAF runnable.  notify_raf runs client   *)
(* callbacks, which may call back into the session, so the handler is      *)
(* taken in steps: the swap, each entry of the batch, and the completion   *)
(* signal.                                                                 *)
(***************************************************************************)
\* A slip: the registry is read but not emptied.
BugListKept == raf_callback_list

\* What `mem::replace(&mut *self.raf_callback_list.borrow_mut(), vec![])`
\* leaves in the registry.
Replaced == <<>>

\* `if let Some(callback) = callback`
Payload(entry) == entry.cb

\* handler() up to the first iteration of notify_raf's for loop.
NotifyStart(now) ==
    /\ pc = "idle"
    /\ script_queue # <<>>
    /\ handler' = Head(script_queue)
    /\ script_queue' = Tail(script_queue)
    /\ callbacks' = raf_callback_list
    /\ raf_callback_list' = Replaced
    /\ timing' = now
    /\ pc' = "drain"
    /\ running' = 0
    /\ hist' = [hist EXCEPT
                   !.swapped = next_raf_id, !.cancelled = {},
                   !.batch = raf_callback_list, !.calls = <<>>]
    /\ out' = Did("notify_raf")
    /\ UNCHANGED <<display, presenting, frame_data, layer, layer_ctx,
                   compositor_id, next_raf_id, loops, created, cancel_called,
                   rpc>>

\* One iteration of `for (_, callback) in callbacks.drain(..)`, after the
\* callback of the previous iteration has returned.
NotifyNext ==
    /\ pc \in {"drain", "callback"}
    /\ callbacks # <<>>
    /\ callbacks' = Tail(callbacks)
    /\ cancel_called' = cancel_called \ {Head(callbacks).id}
    /\ IF Payload(Head(callbacks))
       THEN /\ pc' = "callback"
            /\ running' = Head(callbacks).id
            /\ hist' = [hist EXCEPT
                           !.invoked = @ \cup {Head(callbacks).id},
                           !.cancelled = @ \ {Head(callbacks).id},
                           !.stale = @ \ {Head(callbacks).id},
                           !.calls = Append(@, [id |-> Head(callbacks).id,
                                                ts |-> timing])]
            /\ out' = [Did("callback") EXCEPT
                          !.invoked = Head(callbacks).id, !.ts = timing]
       ELSE /\ pc' = "drain"
            /\ running' = 0
            /\ hist' = [hist EXCEPT
                           !.cancelled = @ \ {Head(callbacks).id},
                           !.stale = @ \ {Head(callbacks).id}]
            /\ out' = Did("skip")
    /\ UNCHANGED <<session, timing, handler, script_queue, loops, created,
                   rpc>>

\* `self.sender.send(())`: thread l has a signal to take.
Signalled(l) == [loops EXCEPT ![l].sig = TRUE]

\* The loop is over, notify_raf returns, and `self.sender.send(())` signals
\* the completion to the WebVR_RAF thread.
NotifyEnd ==
    /\ pc \in {"drain", "callback"}
    /\ callbacks = <<>>
    /\ loops' = Signalled(handler)
    /\ pc' = "idle"
    /\ running' = 0
    /\ handler' = 0
    /\ timing' = 0
    /\ hist' = [hist EXCEPT
                   !.swapped = 0, !.cancelled = {}, !.batch = <<>>,
                   !.calls = <<>>]
    /\ out' = [Did("signal") EXCEPT !.thread = handler]
    /\ UNCHANGED <<session, callbacks, script_queue, created, cancel_called,
                   rpc>>

(***************************************************************************)
(* The WebVR_RAF thread spawned by init_present.                           *)
(***************************************************************************)
\* A slip: the thread does not wait for the completion signal.
BugRafNotAwaited(l) == TRUE

\* `raf_receiver.recv()` has a signal to take.  The thread keeps raf_sender
\* itself and hands clones to the runnables, so the channel never closes:
\* without a signal recv() does not return, whatever became of the script
\* thread.
RafExecutionEnded(l) == loops[l].sig

\* Create, once.  The render thread may fail to create the compositor.
LoopCreate(l, made) ==
    /\ loops[l].pc = "create"
    /\ created' = IF made
                  THEN RenderThread(created,
                                    Command("Create", loops[l].cid, <<>>, <<>>))
                  ELSE created
    /\ loops' = [loops EXCEPT ![l].pc = "sync"]
    /\ out' = [Did("WebVR_RAF") EXCEPT
                  !.thread = l,
                  !.cmds = <<Command("Create", loops[l].cid, <<>>, <<>>)>>]
    /\ UNCHANGED <<session, pc, rpc, callbacks, timing, running, handler,
                   script_queue, cancel_called, hist>>

\* Top of the loop: the first time after Create, later after the completion
\* signal of the previous dispatch.  SyncPoses is answered Ok by a live
\* compositor and Err otherwise.
LoopSyncPoses(l) ==
    /\ \/ loops[l].pc = "sync"
       \/ loops[l].pc = "wait_raf" /\ RafExecutionEnded(l)
    /\ loops' = [loops EXCEPT
                    ![l].pc = "wait_sync",
                    ![l].sig = FALSE,
                    ![l].reply = IF loops[l].cid \in created THEN "ok" ELSE "err"]
    /\ out' = [Did("WebVR_RAF") EXCEPT
                  !.thread = l,
                  !.msg = IF loops[l].pc = "sync" THEN "first" ELSE "next",
                  !.cmds = <<Command("SyncPoses", loops[l].cid, <<>>, <<>>)>>]
    /\ hist' = [hist EXCEPT
                   !.syncs = IF l = hist.released /\ @ < 2 THEN @ + 1 ELSE @]
    /\ UNCHANGED <<session, pc, rpc, callbacks, timing, running, handler,
                   script_queue, created, cancel_called>>

\* `sync_receiver.recv()`: Err ends the thread, Ok posts NotifyDisplayRAF
\* (to a script thread that is still there).
LoopSyncReply(l) ==
    /\ loops[l].pc = "wait_sync"
    /\ IF loops[l].reply = "err"
       THEN /\ loops' = [loops EXCEPT ![l].pc = "done", ![l].reply = "none"]
            /\ hist' = Ended(l)
            /\ out' = [Did("WebVR_RAF exit") EXCEPT !.thread = l]
            /\ UNCHANGED script_queue
       ELSE IF pc = "crashed"
       THEN /\ loops' = [loops EXCEPT ![l].pc = "panicked", ![l].reply = "none"]
            /\ hist' = Ended(l)
            /\ out' = [Panicked("WebVR_RAF") EXCEPT !.thread = l]
            /\ UNCHANGED script_queue
       ELSE /\ loops' = [loops EXCEPT ![l].pc = "wait_raf", ![l].reply = "none"]
            /\ script_queue' = Append(script_queue, l)
            /\ out' = [Did("WebVR_RAF post") EXCEPT !.thread = l]
            /\ UNCHANGED hist
    /\ UNCHANGED <<session, pc, rpc, callbacks, timing, running, handler, created,
                   cancel_called>>

(***************************************************************************)
(* The specifications.  Both take every step of the program; they differ   *)
(* in the inputs the environment supplies.  Spec supplies every layer,     *)
(* every device event and every reply, for one presenting period's worth   *)
(* of frame callbacks; SpecRaf supplies two layers to a display that stays *)
(* able to present, and the full bounds of threads and callbacks;          *)
(* SpecFrame is Spec for that display and those layers, with a WebVR       *)
(* thread that also answers GetFrameData with frame data.                  *)
(***************************************************************************)
\* The replies to RequestPresent that keep the number of WebVR_RAF threads
\* within `max`.
RepliesWithin(max) ==
    {r \in RequestPresentReplies : r.kind = "Ok" => Len(loops) < max}

\* The script thread takes the reply to the protocol call it waits for,
\* with at most `max` WebVR_RAF threads spawned and frame data of `frames`.
Reply(max, frames) ==
    \/ RequestPresentReply(RepliesWithin(max))
    \/ \E reply \in ExitPresentReplies : ExitPresentReply(reply)
    \/ \E reply \in frames : GetFrameDataReply(reply)

Init ==
    /\ display \in DisplayData
    /\ InitSession

InitRaf ==
    /\ display = ReadyDisplay
    /\ InitSession

Next ==
    \/ \E layers \in LayersInputs : RequestPresent(layers, WebVRThreads)
    \/ \E w \in WebVRThreads : ExitPresent(w)
    \/ \E w \in WebVRThreads : GetFrameData(w)
    \/ \E w \in WebVRThreads : ResetPose(w)
    \/ Reply(MaxSessionLoops, GetFrameDataFailures)
    \/ SubmitFrame
    \/ next_raf_id <= MaxSessionRafId /\ RequestAnimationFrame
    \/ \E handle \in 1..MaxSessionRafId : CancelAnimationFrame(handle)
    \/ \E event \in VRDisplayEvents : handle_webvr_event(event)
    \/ \E d \in DisplayData : UpdateDisplay(d)
    \/ NotifyStart(1)
    \/ NotifyNext
    \/ NotifyEnd
    \/ \E l \in 1..Len(loops) : LoopCreate(l, TRUE)
    \/ \E l \in 1..Len(loops) : LoopSyncPoses(l)
    \/ \E l \in 1..Len(loops) : LoopSyncReply(l)

NextRaf ==
    \/ \E layers \in PlainLayers : RequestPresent(layers, WebVRThreads)
    \/ \E w \in WebVRThreads : ExitPresent(w)
    \/ \E w \in WebVRThreads : GetFrameData(w)
    \/ \E w \in WebVRThreads : ResetPose(w)
    \/ Reply(MaxLoops, GetFrameDataFailures)
    \/ SubmitFrame
    \/ next_raf_id <= MaxRafId /\ RequestAnimationFrame
    \/ \E handle \in 1..MaxRafId : CancelAnimationFrame(handle)
    \/ \E event \in ReadyDisplayEvents : handle_webvr_event(event)
    \/ UpdateDisplay(ReadyDisplay)
    \/ \E now \in 1..MaxNow : NotifyStart(now)
    \/ NotifyNext
    \/ NotifyEnd
    \/ \E l \in 1..Len(loops), made \in BOOLEAN : LoopCreate(l, made)
    \/ \E l \in 1..Len(loops) : LoopSyncPoses(l)
    \/ \E l \in 1..Len(loops) : LoopSyncReply(l)

NextFrame ==
    \/ \E layers \in PlainLayers : RequestPresent(layers, WebVRThreads)
    \/ \E w \in WebVRThreads : ExitPresent(w)
    \/ \E w \in WebVRThreads : GetFrameData(w)
    \/ \E w \in WebVRThreads : ResetPose(w)
    \/ Reply(MaxSessionLoops, GetFrameDataReplies)
    \/ SubmitFrame
    \/ next_raf_id <= MaxSessionRafId /\ RequestAnimationFrame
    \/ \E handle \in 1..MaxSessionRafId : CancelAnimationFrame(handle)
    \/ \E event \in ReadyDisplayEvents : handle_webvr_event(event)
    \/ UpdateDisplay(ReadyDisplay)
    \/ NotifyStart(1)
    \/ NotifyNext
    \/ NotifyEnd
    \/ \E l \in 1..Len(loops) : LoopCreate(l, TRUE)
    \/ \E l \in 1..Len(loops) : LoopSyncPoses(l)
    \/ \E l \in 1..Len(loops) : LoopSyncReply(l)

Spec == Init /\ [][Next]_vars

SpecRaf == InitRaf /\ [][NextRaf]_vars

SpecFrame == InitRaf /\ [][NextFrame]_vars

\* A step of WebVR_RAF thread l.
LoopStep(l) ==
    /\ l <= Len(loops)
    /\ \/ \E made \in BOOLEAN : LoopCreate(l, made)
       \/ LoopSyncPoses(l)
       \/ LoopSyncReply(l)

\* A step of the script thread in the NotifyDisplayRAF runnable.
Dispatch ==
    \/ \E now \in 1..MaxNow : NotifyStart(now)
    \/ NotifyNext
    \/ NotifyEnd

\* Scheduling: a thread that can take a step is not held back for ever; a
\* receiver.recv() of the script thread returns (with the reply of the
\* WebVR thread, or with the error of a closed channel); a frame callback
\* returns; and the script thread, which takes its tasks in the order they
\* were posted, gets to every runnable posted to it, however many calls
\* the client makes in between.
Fairness ==
    /\ \A l \in 1..MaxLoops : WF_vars(LoopStep(l))
    /\ SF_vars(Dispatch)
    /\ WF_vars(Reply(MaxLoops, GetFrameDataFailures))

\* SpecRaf with one frame callback.
NextLive ==
    \/ \E layers \in PlainLayers : RequestPresent(layers, WebVRThreads)
    \/ \E w \in WebVRThreads : ExitPresent(w)
    \/ \E w \in WebVRThreads : GetFrameData(w)
    \/ \E w \in WebVRThreads : ResetPose(w)
    \/ Reply(MaxLoops, GetFrameDataFailures)
    \/ SubmitFrame
    \/ next_raf_id <= MaxSessionRafId /\ RequestAnimationFrame
    \/ \E handle \in 1..MaxSessionRafId : CancelAnimationFrame(handle)
    \/ \E event \in ReadyDisplayEvents : handle_webvr_event(event)
    \/ UpdateDisplay(ReadyDisplay)
    \/ Dispatch
    \/ \E l \in 1..MaxLoops : LoopStep(l)

\* Two WebVR_RAF threads and one frame callback under fair scheduling.
SpecLive == InitRaf /\ [][NextLive]_vars /\ Fairness

\* The counter of SpecWrap's first state: the last handle before the
\* addition overflows.
WrapStart == U32Max

\* The handles RequestAnimationFrame has returned since the counter was
\* WrapStart.
HandlesSince(id) == id - WrapStart

\* The handles around the largest u32.
WrapHandles == {WrapStart - 1, WrapStart, 0}

\* A session of SpecRaf in its first presenting period once 2^32 - 2
\* handles have been returned and the drain that called the last of them
\* has signalled its completion.  Of the handles called so far the history
\* keeps the last.
InitWrap ==
    /\ display = ReadyDisplay
    /\ presenting = TRUE
    /\ frame_data = 0
    /\ layer = DefaultLayer
    /\ layer_ctx = 1
    /\ compositor_id = 1
    /\ next_raf_id = WrapStart
    /\ raf_callback_list = <<>>
    /\ pc = "idle"
    /\ rpc = NoCall
    /\ callbacks = <<>>
    /\ timing = 0
    /\ running = 0
    /\ handler = 0
    /\ script_queue = <<>>
    /\ loops = <<[NewLoop(1) EXCEPT !.pc = "wait_raf", !.sig = TRUE]>>
    /\ created = {1}
    /\ cancel_called = {}
    /\ hist = [NoHistory EXCEPT
                  !.returned = WrapStart - 1, !.invoked = {WrapStart - 1},
                  !.period = 1]
    /\ out = [Did("signal") EXCEPT !.thread = 1]

\* NextLive around the largest u32, with at most MaxWrapCalls more calls
\* of RequestAnimationFrame.
NextWrap ==
    \/ \E layers \in PlainLayers : RequestPresent(layers, WebVRThreads)
    \/ \E w \in WebVRThreads : ExitPresent(w)
    \/ \E w \in WebVRThreads : GetFrameData(w)
    \/ \E w \in WebVRThreads : ResetPose(w)
    \/ Reply(MaxLoops, GetFrameDataFailures)
    \/ SubmitFrame
    \/ HandlesSince(next_raf_id) < MaxWrapCalls /\ RequestAnimationFrame
    \/ \E handle \in WrapHandles : CancelAnimationFrame(handle)
    \/ \E event \in ReadyDisplayEvents : handle_webvr_event(event)
    \/ UpdateDisplay(ReadyDisplay)
    \/ Dispatch
    \/ \E l \in 1..MaxLoops : LoopStep(l)

\* The session when next_raf_id reaches the largest u32.
SpecWrap == InitWrap /\ [][NextWrap]_vars

(***************************************************************************)
(* Properties.                                                             *)
(***************************************************************************)
\* The bounds a layer is expected to store: the four values given, or the
\* default when none are given.
ExpectedBounds(src, default) ==
    IF src.some /\ Len(src.v) = 4 THEN src.v ELSE default

\* One layer that validation accepts.
OneValidLayer(layers) ==
    /\ Len(layers) = 1
    /\ layers[1].source # 0
    /\ \A b \in {layers[1].leftBounds, layers[1].rightBounds} :
           b.some => Len(b.v) \in {0, 4}

\* The step stores the layer and the surface handle of `layers`.
StoresLayer(layers) ==
    /\ layer'.left_bounds = ExpectedBounds(layers[1].leftBounds, DefaultLeftBounds)
    /\ layer'.right_bounds =
           ExpectedBounds(layers[1].rightBounds, DefaultRightBounds)
    /\ layer_ctx' = layers[1].source

\* The step makes no protocol call, sends no command and spawns no thread.
Quiet ==
    /\ out'.rpc = "none"
    /\ out'.cmds = <<>>
    /\ out'.spawned = 0
    /\ loops' = loops
    /\ created' = created

\* C1: in every reachable state the compositor session identifier is Some
\* if and only if the presenting flag is true.
C1_CompositorIdIffPresenting == (compositor_id # 0) <=> presenting

\* A NotifyDisplayRAF of thread l is posted and not yet handled to its end.
DispatchPending(l) ==
    \/ \E i \in 1..Len(script_queue) : script_queue[i] = l
    \/ handler = l

\* Thread l sends SyncPoses in this step.
SendsSyncPoses(l) == loops[l].pc # "wait_sync" /\ loops'[l].pc = "wait_sync"

\* C2: a WebVR_RAF thread sends the SyncPoses of the next batch only when
\* the script thread has run the previous batch to its end and has sent the
\* completion signal for it.
C2_BatchesSequential ==
    [][\A l \in 1..Len(loops) :
           SendsSyncPoses(l) =>
               /\ ~DispatchPending(l)
               /\ loops[l].pc = "wait_raf" => loops[l].sig]_vars

\* C2 witness: a thread has sent the SyncPoses that follows a dispatch in
\* which a registered callback was drained.
C2_Witness ==
    /\ out.op = "WebVR_RAF"
    /\ out.msg = "next"
    /\ loops[out.thread].pc = "wait_sync"
    /\ next_raf_id > 1
    /\ raf_callback_list = <<>>

\* The layer sequences of one layer that validation accepts.
ValidLayers == {ls \in LayersInputs : OneValidLayer(ls)}

\* The repeated call does what C3 says.
RepeatUpdates(layers) ==
    /\ Quiet
    /\ StoresLayer(layers)
    /\ presenting' = presenting
    /\ compositor_id' = compositor_id
    /\ out'.promise = "resolved"

\* C3 as stated, for a session that a successful RequestPresent made
\* presenting: RequestPresent with one valid layer while presenting makes
\* no protocol call, spawns no thread, stores the layer, leaves presenting
\* and the compositor id alone and resolves the promise.
C3_RepeatAsStated ==
    [][out'.op \in {"RequestPresent", "send"} /\ presenting
              /\ compositor_id # 0 =>
           \A layers \in ValidLayers :
               RequestPresent(layers, WebVRThreads) =>
                   RepeatUpdates(layers)]_vars

\* C3 amended: the same in every presenting session, when its display
\* descriptor reports can_present = true.
C3_RepeatUpdatesLayer ==
    [][out'.op \in {"RequestPresent", "send"} /\ presenting
              /\ display.can_present =>
           \A layers \in ValidLayers :
               RequestPresent(layers, WebVRThreads) =>
                   RepeatUpdates(layers)]_vars

\* C3 witness: a repeated call has replaced the stored left bounds and the
\* surface handle of a presenting session that runs a thread.
C3_Witness ==
    /\ out.op = "RequestPresent"
    /\ out.promise = "resolved"
    /\ out.rpc = "none"
    /\ presenting
    /\ compositor_id # 0
    /\ Len(loops) = 1
    /\ layer.left_bounds = <<5, 6, 7, 8>>

\* The step rejects the promise and leaves the session, the threads and
\* the compositors as they were.
RejectedUntouched ==
    /\ out'.promise = "rejected"
    /\ out'.spawned = 0
    /\ out'.cmds = <<>>
    /\ UNCHANGED <<session, loops, created>>

\* C4: when an idle session makes the RequestPresent protocol call and the
\* reply is Err, or the WebVR thread is not available, the promise is
\* rejected and the session is as before the call (the wait for the reply
\* changes no field either); no thread is spawned.
C4_FailedRequestKeepsIdle ==
    [][/\ RequestPresentReply({[kind |-> "Err", v |-> 0]}) =>
              ~presenting /\ RejectedUntouched
       /\ out'.op \in {"RequestPresent", "send"} /\ ~presenting
              /\ display.can_present =>
              \A layers \in ValidLayers :
                  /\ RequestPresent(layers, {"None"}) => RejectedUntouched
                  /\ RequestPresent(layers, {"Some"}) =>
                         UNCHANGED <<session, loops, created>>]_vars

\* C4 witness: the call of an idle session that presented before, with a
\* layer of its own, was answered Err.
C4_Witness ==
    /\ out.op = "RequestPresent"
    /\ out.reply = "Err"
    /\ out.promise = "rejected"
    /\ ~presenting
    /\ layer_ctx # 0

\* C5: when a presenting session makes the ExitPresent protocol call and
\* the reply is Err, or the WebVR thread is not available, the promise is
\* rejected, presenting stays true, the compositor id is kept and no
\* Release is sent.
C5_FailedExitKeepsPresenting ==
    [][\/ ExitPresentReply([kind |-> "Err", v |-> 0])
       \/ presenting /\ ExitPresent("None")
       => /\ presenting
          /\ out'.promise = "rejected"
          /\ presenting'
          /\ compositor_id' = compositor_id
          /\ out'.cmds = <<>>
          /\ created' = created]_vars

\* C5 witness: the ExitPresent call of a presenting session with a
\* compositor id was answered Err.
C5_Witness ==
    /\ out.op = "ExitPresent"
    /\ out.reply = "Err"
    /\ out.promise = "rejected"
    /\ presenting
    /\ compositor_id # 0

\* C6: ExitPresent of an idle session rejects the promise, makes no
\* protocol call, sends no command and changes no field of the session.
C6_ExitWhileIdleRejects ==
    [][out'.op \in {"ExitPresent", "send"} /\ ~presenting =>
           \A w \in WebVRThreads :
               ExitPresent(w) =>
                   /\ out'.promise = "rejected"
                   /\ Quiet
                   /\ ~out'.panic
                   /\ UNCHANGED session]_vars

\* C6 witness: ExitPresent was rejected in an idle session that presented
\* before.
C6_Witness ==
    /\ out.op = "ExitPresent"
    /\ out.msg = "VRDisplay is not presenting"
    /\ out.promise = "rejected"
    /\ ~presenting
    /\ compositor_id # 0

\* C7: RequestPresent with a layer sequence whose length is not 1 rejects
\* the promise, makes no protocol call and changes neither presenting, the
\* stored layer nor the compositor id, in either state.
C7_LayerCountRejected ==
    [][out'.op \in {"RequestPresent", "send"} =>
           \A layers \in {ls \in LayersInputs : Len(ls) # 1} :
               RequestPresent(layers, WebVRThreads) =>
                   /\ out'.promise = "rejected"
                   /\ Quiet
                   /\ UNCHANGED <<presenting, layer, layer_ctx,
                                  compositor_id>>]_vars

\* C7 witness: a presenting session rejected a call for its layer count.
C7_Witness ==
    /\ out.op = "RequestPresent"
    /\ out.msg = "The number of layers must be 1"
    /\ out.promise = "rejected"
    /\ presenting

\* A bounds array whose length is neither 0 nor 4.
BadLength(b) == b.some /\ Len(b.v) \notin {0, 4}

\* C8: a layer with a left or right bounds array of a length other than 0
\* and 4 makes RequestPresent reject the promise, before any protocol
\* call and with no change of the session.
C8_BadBoundsRejected ==
    [][out'.op \in {"RequestPresent", "send"} /\ display.can_present =>
           \A layers \in {ls \in LayersInputs : Len(ls) = 1} :
               /\ BadLength(layers[1].leftBounds)
                      \/ BadLength(layers[1].rightBounds)
               /\ RequestPresent(layers, WebVRThreads)
               => /\ out'.promise = "rejected"
                  /\ Quiet
                  /\ UNCHANGED session]_vars

\* C9: with can_present = false in the display descriptor, RequestPresent
\* rejects the promise with the canPresent message, makes no protocol
\* call, spawns no thread and changes no field of the session.
C9_CannotPresentRejected ==
    [][out'.op = "RequestPresent" /\ ~display.can_present =>
           /\ out'.promise = "rejected"
           /\ out'.msg = "VRDisplay canPresent is false"
           /\ Quiet
           /\ UNCHANGED session]_vars

\* C9 witness: an idle session whose display cannot present rejected a call.
C9_Witness ==
    /\ out.op = "RequestPresent"
    /\ out.msg = "VRDisplay canPresent is false"
    /\ out.promise = "rejected"
    /\ ~display.can_present
    /\ ~presenting

\* C10: a callback whose handle was passed to CancelAnimationFrame while
\* it was registered and not yet swapped out by a drain is not invoked by
\* the drain, whatever happened in between.
C10_CancelledNotInvoked ==
    [][out'.invoked # 0 /\ out'.op = "callback" =>
           out'.invoked \notin cancel_called]_vars

\* C11: the handles RequestAnimationFrame returns from the session counter
\* are strictly increasing and start at 1: every call made while presenting
\* returns a handle, and the handle is greater, as a u32, than every handle
\* returned before it, whatever was registered, cancelled, drained, exited
\* or requested in between.
C11_HandlesIncrease ==
    [][out'.op = "RequestAnimationFrame" /\ ~out'.delegated =>
           /\ ~out'.panic
           /\ U32Less(hist.returned, out'.ret)
           /\ hist.returned = 0 => out'.ret = 1
           /\ out'.ret \in Handles(raf_callback_list')]_vars

\* The replies of the WebVR thread to GetFrameData.
FrameDataAnswers == {r \in GetFrameDataReplies : r.kind \in {"Ok", "Err"}}

\* C12: GetFrameData never fails for the caller.  When the reply is Err,
\* or the WebVR thread is not available, the cached frame data stays what
\* the last successful fetch made it; when the reply is Ok the cache becomes
\* the reply; either way the caller receives the cache and the call
\* returns, with no other field of the session changed, the wait for the
\* reply included.
C12_FrameDataBestEffort ==
    [][out'.op \in {"GetFrameData", "send"} =>
           /\ \A reply \in FrameDataAnswers :
                  GetFrameDataReply(reply) =>
                      /\ reply.kind # "Ok" => frame_data' = frame_data
                      /\ reply.kind = "Ok" => frame_data' = reply.v
                      /\ out'.ret = frame_data'
                      /\ ~out'.panic
                      /\ pc' = rpc.from
                      /\ UNCHANGED <<display, presenting, layer, layer_ctx,
                                     compositor_id, next_raf_id,
                                     raf_callback_list>>
           /\ GetFrameData("None") =>
                  /\ out'.ret = frame_data
                  /\ ~out'.panic
                  /\ pc' = pc
                  /\ UNCHANGED session
           /\ GetFrameData("Some") => UNCHANGED session]_vars

\* C12 witness: a fetch answered Err handed the caller the frame data of an
\* earlier successful fetch.
C12_Witness ==
    /\ out.op = "GetFrameData"
    /\ out.reply = "Err"
    /\ out.ret = 2
    /\ frame_data = 2

\* C13: in every state with presenting = true SubmitFrame sends exactly one
\* SubmitFrame command, carrying the stored compositor id and the stored
\* left and right bounds, and completes without error; with presenting =
\* false it sends nothing and changes nothing.
C13_SubmitFrameSends ==
    [][out'.op = "SubmitFrame" =>
           /\ ~out'.panic
           /\ pc' = pc
           /\ UNCHANGED session
           /\ out'.cmds =
                  IF presenting
                  THEN <<Command("SubmitFrame", compositor_id,
                                 layer.left_bounds, layer.right_bounds)>>
                  ELSE <<>>
           /\ presenting => compositor_id # 0]_vars

\* WebVR_RAF thread l takes a failed SyncPoses reply and ends in this step.
ObservesFailedSync(l) == loops[l].pc = "wait_sync" /\ loops'[l].pc = "done"

\* C14: a RequestPresent whose protocol call is answered Ok resolves its
\* promise and leaves presenting = true and a compositor id set; an
\* ExitPresent that resolves its promise leaves
\* presenting = false, and when the thread of the period it ended has taken
\* its failed SyncPoses reply, with the session still idle, no compositor
\* id is left in the session.
C14_IdSetThenCleared ==
    [][/\ out'.op = "RequestPresent" /\ out'.reply = "Ok" =>
              out'.promise = "resolved" /\ presenting' /\ compositor_id' # 0
       /\ out'.op = "ExitPresent" /\ out'.promise = "resolved" => ~presenting'
       /\ \A l \in 1..Len(loops) :
              l = hist.released /\ ObservesFailedSync(l) /\ ~presenting' =>
                  compositor_id' = 0]_vars

\* C15: notify_raf swaps the registry with an empty one before it calls
\* any callback; a callback registered by RequestAnimationFrame while a
\* dispatch is executing goes to the registry, not to the batch being
\* drained, and is not called by this dispatch; no callback is called
\* twice.
C15_RegisteredDuringDrainWaits ==
    [][/\ out'.op = "notify_raf" =>
              /\ callbacks' = raf_callback_list
              /\ raf_callback_list' = <<>>
              /\ hist'.invoked = hist.invoked
       /\ out'.op = "RequestAnimationFrame" /\ ~out'.delegated
              /\ pc \in {"drain", "callback"} =>
              /\ out'.ret >= hist.swapped
              /\ out'.ret \notin Handles(callbacks')
              /\ out'.ret \in Handles(raf_callback_list')
       /\ out'.op = "callback" =>
              /\ out'.invoked < hist.swapped
              /\ out'.invoked \notin hist.invoked]_vars

\* C15 witness: the callback of handle 1, the last of its batch, has
\* registered handle 2, which waits in the registry.
C15_Witness ==
    /\ out.op = "RequestAnimationFrame"
    /\ out.ret = 2
    /\ pc = "callback"
    /\ running = 1
    /\ callbacks = <<>>
    /\ Handles(raf_callback_list) = {2}
    /\ hist.invoked = {1}

\* WebVR_RAF thread l is live: its last SyncPoses was answered Ok, so that
\* it posts, or has posted, a dispatch.  A thread that has had no reply
\* yet, or whose failed reply is on its way, is not counted.
Live(l) ==
    \/ loops[l].pc = "wait_raf"
    \/ loops[l].pc = "wait_sync" /\ loops[l].reply = "ok"

\* C16: at every moment at most one sync loop of the session is live; a
\* RequestPresent after an ExitPresent does not leave the thread of the
\* earlier period running beside the new one.
C16_OneLoopLive ==
    \A l1, l2 \in 1..Len(loops) : Live(l1) /\ Live(l2) => l1 = l2

\* C17: a sync loop is spawned exactly when the presenting flag changes
\* from false to true, whether by RequestPresent or by a PresentChange
\* event: every such change spawns one thread, and no other step spawns
\* one.
C17_SpawnIffBecomesPresenting ==
    [][/\ ~presenting /\ presenting' => Len(loops') = Len(loops) + 1
       /\ Len(loops') # Len(loops) =>
              /\ ~presenting /\ presenting'
              /\ Len(loops') = Len(loops) + 1]_vars

\* C19: once a successful ExitPresent has sent Release, the WebVR_RAF
\* thread of the period it ended sends at most one further SyncPoses
\* before it exits.
C19_OneMoreSync == hist.syncs <= 1

\* C18: after a successful ExitPresent has sent Release, the WebVR_RAF
\* thread of the period it ended eventually terminates, under fair
\* scheduling and a render thread that answers the SyncPoses of a released
\* compositor with an error.
C18_ReleasedLoopEnds ==
    \A l \in 1..MaxLoops :
        (out.op = "ExitPresent" /\ out.cmds # <<>> /\ hist.released = l)
            ~> (Len(loops) >= l /\ loops[l].pc \in {"done", "panicked"})

\* C20: when a frame callback that notify_raf is executing calls
\* CancelAnimationFrame with the handle of a callback of the same batch
\* that has not run yet, that callback is not called in this drain.
C20_CancelInBatch ==
    [][out'.op = "callback" => out'.invoked \notin hist.cancelled]_vars

\* The calls a drain owes the batch it swapped out: one for each entry whose
\* payload is present, in the order of the batch, each passed `ts`.
OwedCalls(batch, ts) ==
    LET Present(entry) == entry.cb
        present == SelectSeq(batch, Present)
    IN  [i \in 1..Len(present) |-> [id |-> present[i].id, ts |-> ts]]

\* s is an initial part of t.
IsPrefix(s, t) == Len(s) <= Len(t) /\ SubSeq(t, 1, Len(s)) = s

\* C21: a drain calls the entries of the batch it swapped out whose payload
\* is present, each once, in the order they were registered, which is the
\* ascending order of their handles, and all with the one timestamp taken
\* at the swap; it calls no entry whose payload CancelAnimationFrame
\* cleared; when it signals its completion it has called every one of them.
C21_DrainCallsBatch ==
    [][/\ out'.op = "callback" =>
              /\ out'.ts = timing
              /\ IsPrefix(hist'.calls, OwedCalls(hist.batch, timing))
              /\ \A i, j \in 1..Len(hist'.calls) :
                     i < j => U32Less(hist'.calls[i].id,
                                      hist'.calls[j].id)
       /\ out'.op = "skip" =>
              /\ hist'.calls = hist.calls
              /\ IsPrefix(hist.calls, OwedCalls(hist.batch, timing))
       /\ out'.op = "signal" =>
              hist.calls = OwedCalls(hist.batch, timing)]_vars

\* The events that carry a descriptor; Disconnect carries the display id
\* only.
CarriesDescriptor(event) == event.kind # "Disconnect"

\* C22: handling a device event, whichever it is, leaves in the session the
\* descriptor the event carries (a Disconnect, which carries none, leaves
\* the stored one as it is), and the stored descriptor changes in no other
\* way: no step changes one field of it and keeps the others.
C22_DescriptorReplacedWhole ==
    [][/\ out'.op = "handle_webvr_event" =>
              \/ display' = display
              \/ \E event \in VRDisplayEvents :
                     /\ event.kind = out'.event
                     /\ CarriesDescriptor(event)
                     /\ display' = event.display
       /\ display' # display =>
              out'.op \in {"handle_webvr_event", "update_display"}]_vars

\* C23: handling Change puts the descriptor it carries in the session and
\* fires no DOM event, and leaves presenting, the stored layer and its
\* context, the compositor id, the callback registry and the handle counter
\* as they were; handling Activate, Deactivate, Blur, Focus or PresentChange
\* puts the descriptor it carries in the session and fires one DOM event,
\* the one of its kind.
C23_ChangeIsSilent ==
    [][out'.op = "handle_webvr_event" =>
           \A event \in VRDisplayEvents :
               handle_webvr_event(event) /\ event.kind = out'.event =>
                   /\ event.kind = "Change" =>
                          /\ display' = event.display
                          /\ out'.fired = "none"
                          /\ UNCHANGED <<presenting, layer, layer_ctx,
                                         compositor_id, raf_callback_list,
                                         next_raf_id>>
                   /\ event.kind \in {"Activate", "Deactivate", "Blur",
                                      "Focus", "PresentChange"} =>
                          /\ display' = event.display
                          /\ out'.fired = event.kind]_vars

\* C23 witness: while the session presents with a callback registered, a
\* Change has replaced the descriptor it presented with by one that cannot
\* present.
C23_Witness ==
    /\ out.op = "handle_webvr_event"
    /\ out.event = "Change"
    /\ out.fired = "none"
    /\ ~display.can_present
    /\ presenting
    /\ compositor_id # 0
    /\ raf_callback_list # <<>>

\* C24: notify_raf calls a frame callback only while the session is
\* presenting, and never one that was in the registry when presenting became
\* false, in whatever presenting period the drain runs.
C24_CalledOnlyWhilePresenting ==
    [][out'.op = "callback" =>
           /\ presenting
           /\ out'.invoked \notin hist.stale]_vars

\* WebVR_RAF thread l waits in `raf_receiver.recv()` with no signal to take.
BlockedOnSignal(l) ==
    /\ l <= Len(loops)
    /\ loops[l].pc = "wait_raf"
    /\ ~loops[l].sig

\* C25: the script thread never waits for a WebVR_RAF thread, and no thread
\* waits for ever.  While a thread waits for the completion signal, the
\* NotifyDisplayRAF it posted is queued or being handled, unless the script
\* thread has panicked; the signal is sent once for each posted runnable,
\* to a thread that waits for it and has none yet; and under fair
\* scheduling every wait ends, also that of a thread whose script thread
\* has panicked.
C25_NoDeadlock ==
    /\ [](\A l \in 1..MaxLoops :
            BlockedOnSignal(l) => DispatchPending(l) \/ pc = "crashed")
    /\ [][\A l \in 1..MaxLoops :
              out'.op = "signal" /\ out'.thread = l =>
                  /\ pc # "crashed"
                  /\ BlockedOnSignal(l)
                  /\ DispatchPending(l)
                  /\ loops'[l].sig
                  /\ ~DispatchPending(l)']_vars
    /\ \A l \in 1..MaxLoops : BlockedOnSignal(l) ~> ~BlockedOnSignal(l)

====
